---- MODULE Spec2Model ----
(***************************************************************************)
(* Model of the DeathToll stats tracker (src/main.py): the remote log of   *)
(* the game mod, the FTP tail reader download_log_tail, the poll cycle     *)
(* monitor_discord_events_log inside the loop of monitor_server, the       *)
(* event handlers, and the snapshot file written by save_player_stats.     *)
(* Spec is the whole program behind the FTP pipeline; HandlerSpec calls the *)
(* handlers directly; LoopSpec is the loop of monitor_server with the save  *)
(* in two steps.                                                           *)
(* SchedSpec and CalendarSpec take a whole cycle of that loop as one step,  *)
(* with its counters and its calendar.                                     *)
(***************************************************************************)
EXTENDS Integers, Sequences, FiniteSets, TLC

\* ------------------------------------------------------------------ bounds
MaxFile == 6          \* bytes the mod puts into one generation of the log

\* ------------------------------------------------------- program constants
DedupCap == 1000      \* len(last_events) > 1000 / [-1000:]

LogPath == "/Lua/discord_events.log"

\* ------------------------------------------------------------- log content
\* The events the game mod can write, each at most once.  Events 1 and 2 are
\* deaths of two subjects that carry the same timestamp.
EventOf ==
  << [type |-> "death", timestamp |-> 1, username |-> "alice", steam_id |-> 11,
      hours_survived |-> 10, skill |-> "", level |-> 0, skills |-> <<>>],
     [type |-> "death", timestamp |-> 1, username |-> "bob", steam_id |-> 22,
      hours_survived |-> 25, skill |-> "", level |-> 0, skills |-> <<>>],
     [type |-> "sunrise", timestamp |-> 2, username |-> "", steam_id |-> 0,
      hours_survived |-> 0, skill |-> "", level |-> 0, skills |-> <<>>] >>

EventIds == 1 .. Len(EventOf)

\* A byte of the remote file.  An event line is written as two halves and a
\* newline: neither half alone is a JSON document.
H1(i) == [b |-> "h1", e |-> i]
H2(i) == [b |-> "h2", e |-> i]
NL    == [b |-> "nl", e |-> 0]
Junk  == [b |-> "x", e |-> 0]      \* text that is no JSON
Bad   == [b |-> "bad", e |-> 0]    \* a byte that is no valid UTF-8

EventLine(i) == << H1(i), H2(i), NL >>
JunkLine == << Junk, Bad, NL >>

\* ------------------------------------------------------------ pure helpers
Min(a, b) == IF a < b THEN a ELSE b

Range(s) == { s[k] : k \in 1 .. Len(s) }

\* bytes.decode('utf-8', errors='ignore'): invalid bytes are dropped
IsText(c) == c.b # "bad"
Decode(bytes) == SelectSeq(bytes, IsText)

\* str.split('\n')
RECURSIVE SplitFrom(_, _, _)
SplitFrom(s, k, cur) ==
  IF k > Len(s) THEN << cur >>
  ELSE IF s[k] = NL THEN << cur >> \o SplitFrom(s, k + 1, << >>)
  ELSE SplitFrom(s, k + 1, Append(cur, s[k]))

SplitLines(content) == SplitFrom(content, 1, << >>)

\* json.loads(line.strip()) succeeds exactly on a whole event line
Parseable(line) ==
  /\ Len(line) = 2
  /\ line[1].b = "h1"
  /\ line[2].b = "h2"
  /\ line[1].e = line[2].e

ParsedEvent(line) == line[1].e

\* the event id built in monitor_discord_events_log
EventIdentity(ev) ==
  IF ev.type = "level_up"
  THEN [type |-> ev.type, username |-> ev.username, skill |-> ev.skill,
        level |-> ev.level, timestamp |-> ev.timestamp]
  ELSE [type |-> ev.type, username |-> "", skill |-> "", level |-> 0,
        timestamp |-> ev.timestamp]

\* ---------------------------------------------------------- aggregate state
EmptyMap == [k \in {} |-> 0]

MapGet(m, k, default) == IF k \in DOMAIN m THEN m[k] ELSE default

MapPut(m, k, v) == [x \in DOMAIN m \cup {k} |-> IF x = k THEN v ELSE m[x]]

NewPlayer(steam_id) ==
  [steam_id |-> steam_id,
   total_deaths |-> 0,
   total_respawns |-> 0,
   current_character |-> [alive |-> FALSE, hours_survived |-> 0, skills |-> EmptyMap],
   lifetime_stats |-> [total_hours_survived |-> 0, longest_survival |-> 0,
                       skill_milestones |-> EmptyMap]]

\* mutant: the test `username not in player_stats` is missing
init_player_Reset(ps, username, steam_id) == MapPut(ps, username, NewPlayer(steam_id))

init_player(ps, username, steam_id) ==
  IF username \in DOMAIN ps THEN ps ELSE MapPut(ps, username, NewPlayer(steam_id))

\* parse_skills_string: a skills string is a sequence of pairs; int() raises
\* ValueError on a pair whose level is no number
SkillsValid(skills_str) == \A k \in 1 .. Len(skills_str) : skills_str[k].ok

RECURSIVE parse_skills_string(_)
parse_skills_string(skills_str) ==
  IF skills_str = << >> THEN EmptyMap
  ELSE LET n == Len(skills_str)
       IN  MapPut(parse_skills_string(SubSeq(skills_str, 1, n - 1)),
                  skills_str[n].k, skills_str[n].v)

SKILL_NOTIFICATIONS == "milestones"
SKILL_MILESTONES == {5, 10}

\* The part of the process state a handler works on: st.player_stats,
\* st.unsaved_changes, st.sent (the notifications posted so far) and st.raised
\* (an exception left the handler).
Notify(st, kind, username) ==
  [st EXCEPT !.sent = Append(@, [kind |-> kind, username |-> username])]

\* mutant: longest_survival is overwritten by the hours of the last death
handle_death_event_LastWins(st, data) ==
  LET ps1 == init_player(st.player_stats, data.username, data.steam_id)
      p0  == ps1[data.username]
      p1  == [p0 EXCEPT !.total_deaths = @ + 1,
                        !.current_character.alive = FALSE,
                        !.current_character.hours_survived = data.hours_survived]
      p2  == [p1 EXCEPT !.current_character.skills = parse_skills_string(data.skills),
                        !.lifetime_stats.total_hours_survived = @ + data.hours_survived,
                        !.lifetime_stats.longest_survival = data.hours_survived]
  IN  IF ~SkillsValid(data.skills)
      THEN [st EXCEPT !.player_stats = MapPut(ps1, data.username, p1), !.raised = TRUE]
      ELSE Notify([st EXCEPT !.player_stats = MapPut(ps1, data.username, p2),
                             !.unsaved_changes = TRUE],
                  "death", data.username)

handle_death_event(st, data) ==
  LET ps1 == init_player(st.player_stats, data.username, data.steam_id)
      p0  == ps1[data.username]
      p1  == [p0 EXCEPT !.total_deaths = @ + 1,
                        !.current_character.alive = FALSE,
                        !.current_character.hours_survived = data.hours_survived]
      p2  == [p1 EXCEPT !.current_character.skills = parse_skills_string(data.skills),
                        !.lifetime_stats.total_hours_survived = @ + data.hours_survived,
                        !.lifetime_stats.longest_survival =
                           IF data.hours_survived > @ THEN data.hours_survived ELSE @]
  IN  IF ~SkillsValid(data.skills)
      THEN [st EXCEPT !.player_stats = MapPut(ps1, data.username, p1), !.raised = TRUE]
      ELSE Notify([st EXCEPT !.player_stats = MapPut(ps1, data.username, p2),
                             !.unsaved_changes = TRUE],
                  "death", data.username)

\* mutant: the respawn starts the lifetime hours again
handle_spawn_event_ResetHours(st, data) ==
  LET ps1 == init_player(st.player_stats, data.username, data.steam_id)
      p1  == [ps1[data.username] EXCEPT
                !.total_respawns = @ + 1,
                !.lifetime_stats.total_hours_survived = 0,
                !.current_character =
                   [alive |-> TRUE, hours_survived |-> 0, skills |-> EmptyMap]]
  IN  Notify([st EXCEPT !.player_stats = MapPut(ps1, data.username, p1),
                        !.unsaved_changes = TRUE],
             "respawn", data.username)

\* mutant: the respawn keeps the skills of the character before
handle_spawn_event_KeepSkills(st, data) ==
  LET ps1 == init_player(st.player_stats, data.username, data.steam_id)
      p1  == [ps1[data.username] EXCEPT
                !.total_respawns = @ + 1,
                !.current_character.alive = TRUE,
                !.current_character.hours_survived = 0]
  IN  Notify([st EXCEPT !.player_stats = MapPut(ps1, data.username, p1),
                        !.unsaved_changes = TRUE],
             "respawn", data.username)

handle_spawn_event(st, data) ==
  LET ps1 == init_player(st.player_stats, data.username, data.steam_id)
      p1  == [ps1[data.username] EXCEPT
                !.total_respawns = @ + 1,
                !.current_character =
                   [alive |-> TRUE, hours_survived |-> 0, skills |-> EmptyMap]]
  IN  Notify([st EXCEPT !.player_stats = MapPut(ps1, data.username, p1),
                        !.unsaved_changes = TRUE],
             "respawn", data.username)

\* mutant: the milestone follows the level without the test `level > current`
handle_level_up_event_Overwrite(st, data) ==
  LET ps1 == init_player(st.player_stats, data.username, data.steam_id)
      p0  == ps1[data.username]
      p1  == [p0 EXCEPT
                !.current_character.skills = MapPut(@, data.skill, data.level),
                !.current_character.hours_survived = data.hours_survived,
                !.lifetime_stats.skill_milestones = MapPut(@, data.skill, data.level)]
      st1 == [st EXCEPT !.player_stats = MapPut(ps1, data.username, p1),
                        !.unsaved_changes = TRUE]
      should_notify ==
        \/ SKILL_NOTIFICATIONS = "all"
        \/ SKILL_NOTIFICATIONS = "milestones" /\ data.level \in SKILL_MILESTONES
  IN  IF should_notify THEN Notify(st1, "skill", data.username) ELSE st1

handle_level_up_event(st, data) ==
  LET ps1 == init_player(st.player_stats, data.username, data.steam_id)
      p0  == ps1[data.username]
      current_milestone == MapGet(p0.lifetime_stats.skill_milestones, data.skill, 0)
      p1  == [p0 EXCEPT
                !.current_character.skills = MapPut(@, data.skill, data.level),
                !.current_character.hours_survived = data.hours_survived,
                !.lifetime_stats.skill_milestones =
                   IF data.level > current_milestone
                   THEN MapPut(@, data.skill, data.level) ELSE @]
      st1 == [st EXCEPT !.player_stats = MapPut(ps1, data.username, p1),
                        !.unsaved_changes = TRUE]
      should_notify ==
        \/ SKILL_NOTIFICATIONS = "all"
        \/ SKILL_NOTIFICATIONS = "milestones" /\ data.level \in SKILL_MILESTONES
  IN  IF should_notify THEN Notify(st1, "skill", data.username) ELSE st1

handle_login_event(st, data) ==
  LET ps1 == init_player(st.player_stats, data.username, data.steam_id)
      p1  == [ps1[data.username] EXCEPT
                !.current_character.skills = parse_skills_string(data.skills),
                !.current_character.alive = TRUE,
                !.current_character.hours_survived = data.hours_survived]
  IN  IF ~SkillsValid(data.skills)
      THEN [st EXCEPT !.player_stats = ps1, !.raised = TRUE]
      ELSE [st EXCEPT !.player_stats = MapPut(ps1, data.username, p1),
                      !.unsaved_changes = TRUE]

handle_discord_event(st, event) ==
  CASE event.type = "death" -> handle_death_event(st, event)
    [] event.type = "level_up" -> handle_level_up_event(st, event)
    [] event.type = "character_created" -> handle_spawn_event(st, event)
    [] event.type = "login" -> handle_login_event(st, event)
    [] event.type \in {"sunrise", "sunset", "daily_survivors", "leaderboard_request"} ->
         Notify(st, event.type, "")
    [] OTHER -> st

\* ------------------------------------------------------------------- state
VARIABLES
  remote,           \* bytes of the remote log file
  wline,            \* bytes of the line the mod is writing that are not yet in the file
  written,          \* events the mod has started to write
  rotated,          \* the remote log was replaced at least once
  file_positions,   \* global file_positions: log path -> offset
  last_events,      \* global last_events
  player_stats,     \* global player_stats: username -> record
  unsaved_changes,  \* global unsaved_changes
  sent,             \* notifications posted to the webhook, in order
  disk,             \* player_stats.json: NoFile, the snapshot written last, or
                    \* TornFile while a save is under way
  pc,               \* "idle": between cycles, "retr": size known, RETR not yet done,
                    \* "backoff": sleeping in the except clause after a failed cycle,
                    \* "saving", "saving_exit": inside save_player_stats, the file
                    \* open; "exited": the process left by itself; "stopped": killed
  file_size,        \* download_log_tail: size returned by ftp.size
  from_position,    \* download_log_tail: from_position after the rotation test
  lastCall,         \* the call of download_log_tail completed by the last step
  curBatch,         \* events with a well-formed line in the chunk of the last cycle
  overlap,          \* last step: those of curBatch also in the chunk of the cycle before
  offered,          \* identities that reached the dedup test in this process run
  partial,          \* per event: "cut" once a chunk ended inside its line,
                    \* "rest" once a later chunk began with the rest of that line
  handled,          \* the calls made on the handlers directly, in order
  check_count,      \* monitor_server: check_count, kept modulo 20
  consecutive_errors,           \* monitor_server: consecutive_errors
  last_daily_leaderboard_date,  \* monitor_server: date of the last daily set, 0: None
  last_weekly_leaderboard_date, \* monitor_server: date of the last weekly set, 0: None
  clock,            \* what datetime.now() returns: a point of the calendar below
  lastSleep,        \* the sleep that ended the last cycle: "normal", "extended"
                    \* ("none": the last step was no cycle)
  failRun,          \* cycles in a row that ended in the except clause
  sinceDirty,       \* cycles completed with unsaved_changes set since the last
                    \* call of save_player_stats
  reports           \* the leaderboard sets emitted: which set, on which date, at which hour

vars == << remote, wline, written, rotated, file_positions, last_events,
           player_stats, unsaved_changes, sent, disk, pc, file_size, from_position,
           lastCall, curBatch, overlap, offered, partial, handled,
           check_count, consecutive_errors, last_daily_leaderboard_date,
           last_weekly_leaderboard_date, clock, lastSleep, failRun, sinceDirty,
           reports >>

writerVars == << remote, wline, written, rotated >>
globalVars == << file_positions, last_events, player_stats, unsaved_changes >>
localVars  == << pc, file_size, from_position >>
ghostVars  == << curBatch, offered, partial, handled >>
loopLocals == << check_count, consecutive_errors, last_daily_leaderboard_date,
                 last_weekly_leaderboard_date >>
schedVars  == << loopLocals, clock, lastSleep, failRun, sinceDirty, reports >>

\* player_stats.json.  whole: the file holds a complete JSON document
NoFile == [exists |-> FALSE, whole |-> TRUE, player_stats |-> EmptyMap,
           file_positions |-> EmptyMap]

\* a call of download_log_tail: the offset it was given, the size ftp.size
\* returned (-1: none), the offset RETR was issued with (-1: no RETR), the bytes
\* retrieved, and what it returned: content (none: None; clen: its length), new_pos
NoCall == [outcome |-> "init", given |-> 0, size |-> -1, rest |-> -1,
           nbytes |-> 0, none |-> TRUE, clen |-> 0, new_pos |-> 0]

Cursor == MapGet(file_positions, LogPath, 0)

\* lastCall and overlap describe the step just taken, and no earlier one
Forget == lastCall' = NoCall /\ overlap' = {}

Init ==
  /\ remote = << >>
  /\ wline = << >>
  /\ written = {}
  /\ rotated = FALSE
  /\ file_positions = EmptyMap
  /\ last_events = {}
  /\ player_stats = EmptyMap
  /\ unsaved_changes = FALSE
  /\ sent = << >>
  /\ disk = NoFile
  /\ pc = "idle"
  /\ file_size = 0
  /\ from_position = 0
  /\ lastCall = NoCall
  /\ curBatch = {}
  /\ overlap = {}
  /\ offered = {}
  /\ partial = [i \in EventIds |-> "none"]
  /\ handled = << >>
  /\ check_count = 0
  /\ consecutive_errors = 0
  /\ last_daily_leaderboard_date = 0
  /\ last_weekly_leaderboard_date = 0
  /\ clock = 1
  /\ lastSleep = "none"
  /\ failRun = 0
  /\ sinceDirty = 0
  /\ reports = << >>

\* ------------------------------------------------------- the game mod writes
WriterBegin ==
  /\ wline = << >>
  /\ Len(remote) < MaxFile
  /\ \E line \in { EventLine(i) : i \in EventIds \ written } \cup { JunkLine } :
       /\ remote' = Append(remote, Head(line))
       /\ wline' = Tail(line)
       /\ written' = IF line[1].b = "h1" THEN written \cup { line[1].e } ELSE written
  /\ Forget
  /\ UNCHANGED << rotated, globalVars, sent, disk, localVars, ghostVars >>
  /\ UNCHANGED schedVars

WriterContinue ==
  /\ wline # << >>
  /\ Len(remote) < MaxFile
  /\ remote' = Append(remote, Head(wline))
  /\ wline' = Tail(wline)
  /\ Forget
  /\ UNCHANGED << written, rotated, globalVars, sent, disk, localVars, ghostVars >>
  /\ UNCHANGED schedVars

\* the server replaces the log by a new, empty file
WriterRotate ==
  /\ remote # << >>
  /\ remote' = << >>
  /\ wline' = << >>
  /\ rotated' = TRUE
  /\ Forget
  /\ UNCHANGED << written, globalVars, sent, disk, localVars, ghostVars >>
  /\ UNCHANGED schedVars

\* ------------------------------------------------------------ persistence
\* save_player_stats, when the write succeeds
Snapshot(ps, fp) ==
  [exists |-> TRUE, whole |-> TRUE, player_stats |-> ps, file_positions |-> fp]

\* open(PLAYER_STATS_FILE, 'w') has truncated the file and json.dump has not
\* written all of the document yet
TornFile ==
  [exists |-> TRUE, whole |-> FALSE, player_stats |-> EmptyMap,
   file_positions |-> EmptyMap]

\* load_player_stats into the freshly imported module's globals; json.load
\* raises on a document that is not whole and both globals are set to {}
LoadedPlayerStats(d) == IF d.exists /\ d.whole THEN d.player_stats ELSE EmptyMap
LoadedFilePositions(d) == IF d.exists /\ d.whole THEN d.file_positions ELSE EmptyMap

\* ------------------------------------------------------ download_log_tail
\* mutant: the rotation test is missing
EffectiveFrom_NoReset(size, from_pos) == from_pos

\* if file_size < from_position: from_position = 0
EffectiveFrom(size, from_pos) == IF size < from_pos THEN 0 ELSE from_pos

\* mutant: the test for an unchanged size is missing
NoNewData_Never(size, from_pos) == FALSE

\* if file_size == from_position: return "", from_position
NoNewData(size, from_pos) == size = from_pos

\* ftp.retrbinary('RETR ...', buffer.write, rest=from_position): the server
\* sends the file as it is now, from byte `rest` to its end
Retrieved(file, rest) == SubSeq(file, rest + 1, Len(file))

\* mutant: the new position is counted from the start of the chunk
NewPosition_ChunkLength(size, from_pos, bytes) == Len(bytes)

\* new_position = file_size
NewPosition(size, from_pos, bytes) == size

\* ------------------------------------------- monitor_discord_events_log
\* last_events is assigned in the function body and not declared global there:
\* the name is a local of the function, not bound when the function is entered.
LocalLastEventsBound == FALSE

LoopStart ==
  [player_stats |-> player_stats, unsaved_changes |-> unsaved_changes, sent |-> sent,
   raised |-> FALSE, bound |-> LocalLastEventsBound, last_events |-> {}, offered |-> {}]

\* one pass of the body of `for line in lines`; ls.raised: an exception that is
\* no JSONDecodeError has left the loop
ProcessLine(ls, line) ==
  IF ls.raised \/ line = << >> \/ ~Parseable(line) THEN ls
  ELSE LET event == EventOf[ParsedEvent(line)]
           event_id == EventIdentity(event)
           ls1 == [ls EXCEPT !.offered = @ \cup { event_id }]
       IN  IF ~ls1.bound THEN [ls1 EXCEPT !.raised = TRUE]    \* UnboundLocalError
           ELSE IF event_id \in ls1.last_events THEN ls1
           ELSE LET added == ls1.last_events \cup { event_id }
                    h == handle_discord_event(
                           [player_stats |-> ls1.player_stats,
                            unsaved_changes |-> ls1.unsaved_changes,
                            sent |-> ls1.sent, raised |-> FALSE], event)
                    kept == IF ~h.raised /\ Cardinality(added) > DedupCap
                            THEN added \ { CHOOSE x \in added : TRUE }
                            ELSE added
                IN  [ls1 EXCEPT !.player_stats = h.player_stats,
                                !.unsaved_changes = h.unsaved_changes,
                                !.sent = h.sent,
                                !.raised = h.raised,
                                !.last_events = kept]

RECURSIVE ProcessLines(_, _)
ProcessLines(ls, lines) ==
  IF lines = << >> THEN ls
  ELSE ProcessLines(ProcessLine(ls, Head(lines)), Tail(lines))

\* `if new_content:`
HasContent(call) == ~call.none /\ call.clen > 0

\* mutant: the cursor is stored whatever was returned
CursorAfter_Always(fp, call) == MapPut(fp, LogPath, call.new_pos)

\* file_positions[log_path] = new_pos, under `if new_content:`
CursorAfter(fp, call) ==
  IF HasContent(call) THEN MapPut(fp, LogPath, call.new_pos) ELSE fp

\* events that have a well-formed line in a chunk
Batch(content) ==
  { ParsedEvent(l) : l \in { x \in Range(SplitLines(content)) : Parseable(x) } }

\* the chunk ends inside the line of these events
CutBy(content) ==
  LET segs == SplitLines(content)
      last == segs[Len(segs)]
  IN  IF Len(last) = 1 /\ last[1].b = "h1" THEN { last[1].e } ELSE {}

\* the chunk begins with the rest of the line of these events
RestIn(content) ==
  LET segs == SplitLines(content)
      first == segs[1]
  IN  IF Len(segs) >= 2 /\ Len(first) = 1 /\ first[1].b = "h2"
      THEN { first[1].e } ELSE {}

\* The rest of a poll cycle once download_log_tail has returned `call`: the
\* body of monitor_discord_events_log after the download, then the end of the
\* loop body of monitor_server.  check_count is not kept: `due` stands for
\* check_count % 20 == 0, which any cycle can be, since a cycle whose size
\* query fails changes nothing else and still counts.
FinishCycle(call, content) ==
  LET ls == IF HasContent(call)
            THEN ProcessLines(LoopStart, SplitLines(content))
            ELSE LoopStart
      fp == CursorAfter(file_positions, call)
      cut == IF HasContent(call) THEN CutBy(content) ELSE {}
      rest == IF HasContent(call) THEN RestIn(content) ELSE {}
      batch == IF HasContent(call) THEN Batch(content) ELSE {}
  IN  /\ file_positions' = fp
      /\ last_events' = last_events
      /\ player_stats' = ls.player_stats
      /\ sent' = ls.sent
      /\ \E due \in BOOLEAN :
           LET saving == due /\ ls.unsaved_changes
           IN  \E write_ok \in (IF saving THEN BOOLEAN ELSE { TRUE }) :
                 /\ disk' = IF saving /\ write_ok
                            THEN Snapshot(ls.player_stats, fp) ELSE disk
                 /\ unsaved_changes' = IF saving /\ write_ok THEN FALSE
                                       ELSE ls.unsaved_changes
      /\ pc' = "idle"
      /\ file_size' = 0
      /\ from_position' = 0
      /\ lastCall' = call
      /\ curBatch' = batch
      /\ overlap' = batch \cap curBatch
      /\ offered' = offered \cup ls.offered
      /\ partial' = [i \in EventIds |->
                       IF i \in rest /\ partial[i] = "cut" THEN "rest"
                       ELSE IF i \in cut /\ partial[i] = "none" THEN "cut"
                       ELSE partial[i]]
      /\ UNCHANGED handled

\* A cycle begins: last_pos is read, download_log_tail asks for the size.  The
\* cycle ends here when the size is unavailable or nothing is new.
PollSize ==
  /\ pc = "idle"
  /\ \E res \in { "ok", "absent", "size_error" } :
       /\ res = "absent" => remote = << >>
       /\ LET last_pos == Cursor
              size == Len(remote)
              from == EffectiveFrom(size, last_pos)
          IN  IF res # "ok"
              THEN FinishCycle([NoCall EXCEPT !.outcome = res, !.given = last_pos,
                                              !.new_pos = last_pos], << >>)
              ELSE IF NoNewData(size, from)
              THEN FinishCycle([NoCall EXCEPT !.outcome = "no_new_data",
                                              !.given = last_pos, !.size = size,
                                              !.none = FALSE, !.new_pos = from],
                                << >>)
              ELSE /\ pc' = "retr"
                   /\ file_size' = size
                   /\ from_position' = from
                   /\ Forget
                   /\ UNCHANGED << globalVars, sent, disk, ghostVars >>
  /\ UNCHANGED << writerVars, schedVars >>

\* download_log_tail retrieves and returns; the cycle runs to its end.
PollRetrieve ==
  /\ pc = "retr"
  /\ \E retr_ok \in BOOLEAN :
       LET bytes == Retrieved(remote, from_position)
           base == [NoCall EXCEPT !.given = Cursor, !.size = file_size,
                                  !.rest = from_position]
       IN  IF retr_ok
           THEN FinishCycle([base EXCEPT !.outcome = "ok", !.nbytes = Len(bytes),
                                         !.none = FALSE, !.clen = Len(Decode(bytes)),
                                         !.new_pos = NewPosition(file_size,
                                                                 from_position, bytes)],
                            Decode(bytes))
           ELSE FinishCycle([base EXCEPT !.outcome = "retr_error",
                                         !.new_pos = from_position], << >>)
  /\ UNCHANGED << writerVars, schedVars >>

\* --------------------------------------------------------- process lifecycle
\* KeyboardInterrupt in the loop of monitor_server: save if unsaved, then leave
Shutdown ==
  /\ pc \in { "idle", "retr" }
  /\ \E write_ok \in (IF unsaved_changes THEN BOOLEAN ELSE { TRUE }) :
       /\ disk' = IF unsaved_changes /\ write_ok
                  THEN Snapshot(player_stats, file_positions) ELSE disk
       /\ unsaved_changes' = IF unsaved_changes /\ write_ok THEN FALSE
                             ELSE unsaved_changes
  /\ pc' = "stopped"
  /\ file_size' = 0
  /\ from_position' = 0
  /\ Forget
  /\ UNCHANGED << writerVars, file_positions, last_events, player_stats, sent,
                  ghostVars, schedVars >>

\* the process is killed
Crash ==
  /\ pc \notin { "stopped", "exited" }
  /\ pc' = "stopped"
  /\ file_size' = 0
  /\ from_position' = 0
  /\ Forget
  /\ UNCHANGED << writerVars, globalVars, sent, disk, ghostVars >>
  /\ UNCHANGED schedVars

\* the module is imported again and monitor_server calls load_player_stats
Start ==
  /\ pc \in { "stopped", "exited" }
  /\ player_stats' = LoadedPlayerStats(disk)
  /\ file_positions' = LoadedFilePositions(disk)
  /\ last_events' = {}
  /\ unsaved_changes' = FALSE
  /\ pc' = "idle"
  /\ curBatch' = {}
  /\ Forget
  /\ offered' = {}
  /\ partial' = [i \in EventIds |-> "none"]
  /\ check_count' = 0
  /\ consecutive_errors' = 0
  /\ last_daily_leaderboard_date' = 0
  /\ last_weekly_leaderboard_date' = 0
  /\ lastSleep' = "none"
  /\ failRun' = 0
  /\ sinceDirty' = 0
  /\ UNCHANGED << writerVars, sent, disk, file_size, from_position, handled,
                  clock, reports >>

Next ==
  \/ WriterBegin
  \/ WriterContinue
  \/ WriterRotate
  \/ PollSize
  \/ PollRetrieve
  \/ Shutdown
  \/ Crash
  \/ Start

Spec == Init /\ [][Next]_vars

\* ------------------------------------------------------------ leaderboards
\* sorted(..., key=level, reverse=True): stable, so among equal levels the
\* entry met first stays first
RECURSIVE SortedByLevel(_)
SortedByLevel(entries) ==
  IF entries = << >> THEN << >>
  ELSE LET top == CHOOSE k \in 1 .. Len(entries) :
                    /\ \A j \in 1 .. Len(entries) : entries[j].level <= entries[k].level
                    /\ \A j \in 1 .. k - 1 : entries[j].level < entries[k].level
       IN  << entries[top] >> \o
           SortedByLevel(SubSeq(entries, 1, top - 1) \o
                         SubSeq(entries, top + 1, Len(entries)))

\* the players in the order player_stats.items() yields them
RECURSIVE ItemsOrder(_)
ItemsOrder(names) ==
  IF names = {} THEN << >>
  ELSE LET n == CHOOSE x \in names : TRUE
       IN  << n >> \o ItemsOrder(names \ { n })

\* mutant: the level of the current character is listed for a dead player too
EntriesOf_Live(p, name, skill_name) ==
  LET skill_level == MapGet(p.current_character.skills, skill_name, 0)
  IN  IF skill_level > 0 THEN << [name |-> name, level |-> skill_level] >> ELSE << >>

\* the body of the loop over player_stats.items() in the skill_ branch
EntriesOf(p, name, skill_name) ==
  LET skill_level == MapGet(p.current_character.skills, skill_name, 0)
      milestone == MapGet(p.lifetime_stats.skill_milestones, skill_name, 0)
  IN  (IF p.current_character.alive /\ skill_level > 0
       THEN << [name |-> name, level |-> skill_level] >> ELSE << >>)
      \o
      (IF milestone > 0 /\ ~p.current_character.alive
       THEN << [name |-> name, level |-> milestone] >> ELSE << >>)

RECURSIVE EntriesOfAll(_, _, _)
EntriesOfAll(ps, order, skill_name) ==
  IF order = << >> THEN << >>
  ELSE EntriesOf(ps[Head(order)], Head(order), skill_name)
       \o EntriesOfAll(ps, Tail(order), skill_name)

players_with_skill(ps, skill_name) ==
  EntriesOfAll(ps, ItemsOrder(DOMAIN ps), skill_name)

\* sorted(players_with_skill, key=lambda x: x[1], reverse=True)[:10]
LeaderboardSize == 10
skill_leaderboard(ps, skill_name) ==
  LET sorted == SortedByLevel(players_with_skill(ps, skill_name))
  IN  SubSeq(sorted, 1, Min(LeaderboardSize, Len(sorted)))

\* leaderboard_type.startswith("skill_") and leaderboard_type.replace("skill_", "")
top_skills == << "Aiming", "Fitness", "Strength", "Cooking", "Mechanics" >>

SkillBoardType(skill_name) ==
  CASE skill_name = "Aiming" -> "skill_Aiming"
    [] skill_name = "Fitness" -> "skill_Fitness"
    [] skill_name = "Strength" -> "skill_Strength"
    [] skill_name = "Cooking" -> "skill_Cooking"
    [] skill_name = "Mechanics" -> "skill_Mechanics"

SkillBoardTypes == { SkillBoardType(top_skills[k]) : k \in 1 .. Len(top_skills) }

SkillNameOf(leaderboard_type) ==
  CHOOSE n \in Range(top_skills) : SkillBoardType(n) = leaderboard_type

\* send_leaderboard: the embed posted, if any.  lines: the entries of a skill
\* leaderboard, << >> for the others.
Board(st, kind, lines) ==
  [st EXCEPT !.sent = Append(@, [kind |-> kind, username |-> "", lines |-> lines])]

send_leaderboard(st, leaderboard_type) ==
  LET ps == st.player_stats
      names == DOMAIN ps
  IN  IF names = {} THEN st
      ELSE CASE leaderboard_type = "death" ->
                  IF \E n \in names : ps[n].total_deaths > 0
                  THEN Board(st, "death_leaderboard", << >>) ELSE st
             [] leaderboard_type = "survival" ->
                  IF \E n \in names : ps[n].lifetime_stats.longest_survival # 0
                  THEN Board(st, "survival_leaderboard", << >>) ELSE st
             [] leaderboard_type = "hours" ->
                  IF \E n \in names : ps[n].lifetime_stats.total_hours_survived > 0
                  THEN Board(st, "hours_leaderboard", << >>) ELSE st
             [] leaderboard_type \in SkillBoardTypes ->
                  LET skill_name == SkillNameOf(leaderboard_type)
                  IN  IF players_with_skill(ps, skill_name) # << >>
                      THEN Board(st, "skill_leaderboard",
                                 skill_leaderboard(ps, skill_name))
                      ELSE st
             [] OTHER -> [st EXCEPT !.raised = TRUE]

\* ------------------------------------------------- the handlers, called directly
\* handle_discord_event, send_leaderboard and init_player called on the module
\* as src/test_main.py calls them, without the FTP pipeline in front.
MaxEvents == 4        \* calls made in one run of HandlerSpec

BadSkills == << [k |-> "Aiming", v |-> 0, ok |-> FALSE] >>

ApiEvent(type, username, steam_id, hours, skill, level, skills) ==
  [type |-> type, timestamp |-> 0, username |-> username, steam_id |-> steam_id,
   hours_survived |-> hours, skill |-> skill, level |-> level, skills |-> skills]

ApiEvents ==
  { ApiEvent("death", "alice", 11, 10, "", 0, << >>),
    ApiEvent("death", "alice", 11, 25, "", 0,
             << [k |-> "Aiming", v |-> 3, ok |-> TRUE] >>),
    ApiEvent("death", "alice", 11, 7, "", 0, BadSkills),
    ApiEvent("death", "bob", 22, 25, "", 0, << >>),
    ApiEvent("level_up", "alice", 11, 4, "Aiming", 8, << >>),
    ApiEvent("level_up", "alice", 11, 5, "Aiming", 3, << >>),
    ApiEvent("character_created", "alice", 11, 0, "", 0, << >>),
    ApiEvent("login", "alice", 11, 6, "", 0,
             << [k |-> "Aiming", v |-> 9, ok |-> TRUE] >>),
    ApiEvent("sunrise", "", 0, 0, "", 0, << >>) }

Players == { "alice", "bob" }
SteamIds == { 11, 22 }

NoEvent == ApiEvent("", "", 0, 0, "", 0, << >>)

\* the state the handlers work on, as a record
HandlerState ==
  [player_stats |-> player_stats, unsaved_changes |-> unsaved_changes,
   sent |-> sent, raised |-> FALSE]

\* handle_discord_event(event) for one of `events`, while fewer than `max`
\* calls were made
Dispatch(events, max) ==
  /\ Len(handled) < max
  /\ \E e \in events :
       LET st == handle_discord_event(HandlerState, e)
       IN  /\ player_stats' = st.player_stats
           /\ unsaved_changes' = st.unsaved_changes
           /\ sent' = st.sent
           /\ handled' = Append(handled, [op |-> "event", event |-> e, board |-> "",
                                          raised |-> st.raised])

HandleEvent ==
  /\ Dispatch(ApiEvents, MaxEvents)
  /\ UNCHANGED << writerVars, file_positions, last_events, disk, localVars,
                  lastCall, curBatch, overlap, offered, partial, schedVars >>

\* send_leaderboard(leaderboard_type)
SendLeaderboard ==
  /\ Len(handled) < MaxEvents
  /\ \E t \in { "death", "skill_Aiming" } :
       LET st == send_leaderboard(HandlerState, t)
       IN  /\ sent' = st.sent
           /\ handled' = Append(handled, [op |-> "leaderboard", event |-> NoEvent,
                                          board |-> t, raised |-> st.raised])
  /\ UNCHANGED << writerVars, globalVars, disk, localVars,
                  lastCall, curBatch, overlap, offered, partial, schedVars >>

\* init_player(username, steam_id)
InitPlayer ==
  /\ Len(handled) < MaxEvents
  /\ \E u \in Players, sid \in SteamIds :
       /\ player_stats' = init_player(player_stats, u, sid)
       /\ handled' = Append(handled,
                            [op |-> "init_player",
                             event |-> [NoEvent EXCEPT !.username = u,
                                                       !.steam_id = sid],
                             board |-> "", raised |-> FALSE])
  /\ UNCHANGED << writerVars, file_positions, last_events, unsaved_changes, sent,
                  disk, localVars, lastCall, curBatch, overlap, offered, partial,
                  schedVars >>

HandlerNext ==
  \/ HandleEvent
  \/ SendLeaderboard
  \/ InitPlayer

HandlerSpec == Init /\ [][HandlerNext]_vars

\* ------------------------------------- the loop of monitor_server and the file
\* The loop of monitor_server around the handlers, with save_player_stats in
\* its two steps (open truncates the file, json.dump and close complete it) and
\* with the sleep of the `except Exception` clause.  Events reach the handlers
\* as in HandlerSpec.
MaxLoopEvents == 2    \* events handled in one run of LoopSpec

LoopEvents ==
  { ApiEvent("death", "alice", 11, 10, "", 0, << >>),
    ApiEvent("character_created", "alice", 11, 0, "", 0, << >>),
    ApiEvent("death", "bob", 22, 25, "", 0, << >>) }

\* unchanged by every step of the loop below.  Its counters are not kept
\* here: `due` stands for check_count % 20 == 0, and the two sleeps of the
\* except clause are one state.
pipelineVars == << writerVars, last_events, file_size, from_position,
                   lastCall, curBatch, overlap, offered, partial, schedVars >>

LoopHandle ==
  /\ pc = "idle"
  /\ Dispatch(LoopEvents, MaxLoopEvents)
  /\ UNCHANGED << pipelineVars, file_positions, disk, pc >>

\* the try block runs to its end: check_count += 1, and when check_count % 20
\* is 0 (due) and unsaved_changes, save_player_stats opens the file
CycleDone ==
  /\ pc = "idle"
  /\ \E due \in BOOLEAN :
       IF due /\ unsaved_changes
       THEN /\ disk' = TornFile
            /\ pc' = "saving"
       ELSE UNCHANGED << disk, pc >>
  /\ UNCHANGED << pipelineVars, globalVars, sent, handled >>

\* mutant: unsaved_changes = False is reached whether or not the write failed
SaveWrite_ClearsFlag ==
  /\ pc \in { "saving", "saving_exit" }
  /\ \E write_ok \in BOOLEAN :
       /\ disk' = IF write_ok THEN Snapshot(player_stats, file_positions) ELSE disk
       /\ unsaved_changes' = FALSE
  /\ pc' = IF pc = "saving" THEN "idle" ELSE "exited"
  /\ UNCHANGED << pipelineVars, file_positions, player_stats, sent, handled >>

\* json.dump and the close of the file: the document is complete and
\* unsaved_changes = False, or an exception leaves the file as it is
SaveWrite ==
  /\ pc \in { "saving", "saving_exit" }
  /\ \E write_ok \in BOOLEAN :
       /\ disk' = IF write_ok THEN Snapshot(player_stats, file_positions) ELSE disk
       /\ unsaved_changes' = IF write_ok THEN FALSE ELSE unsaved_changes
  /\ pc' = IF pc = "saving" THEN "idle" ELSE "exited"
  /\ UNCHANGED << pipelineVars, file_positions, player_stats, sent, handled >>

\* an exception in the try block (the FTP connection fails): the except clause
\* counts it and sleeps
CycleFail ==
  /\ pc = "idle"
  /\ pc' = "backoff"
  /\ UNCHANGED << pipelineVars, globalVars, sent, disk, handled >>

\* the sleep of the except clause ends, the loop goes on
Wake ==
  /\ pc = "backoff"
  /\ pc' = "idle"
  /\ UNCHANGED << pipelineVars, globalVars, sent, disk, handled >>

\* KeyboardInterrupt.  Raised in the try block (or inside save_player_stats,
\* which does not catch it) it reaches `except KeyboardInterrupt`: save if
\* unsaved_changes, then break.  Raised in the sleep of the except clause it is
\* outside the try block and leaves monitor_server uncaught.
Interrupt ==
  /\ pc \in { "idle", "saving", "backoff" }
  /\ IF pc # "backoff" /\ unsaved_changes
     THEN /\ disk' = TornFile
          /\ pc' = "saving_exit"
     ELSE /\ pc' = "exited"
          /\ UNCHANGED disk
  /\ UNCHANGED << pipelineVars, globalVars, sent, handled >>

LoopNext ==
  \/ LoopHandle
  \/ CycleDone
  \/ SaveWrite
  \/ CycleFail
  \/ Wake
  \/ Interrupt
  \/ Crash
  \/ Start

LoopSpec == Init /\ [][LoopNext]_vars

\* ------------------------------------- the loop of monitor_server, cycle by cycle
\* One step is one pass of the loop body with all its counters: check_count,
\* consecutive_errors and the leaderboard markers.  save_player_stats is one
\* step here.  SchedSpec lets cycles fail while the clock stays off the trigger
\* minutes; CalendarSpec lets the clock move while every cycle succeeds.
MaxFails == 10        \* cycles in a row that fail
MaxSchedEvents == 1   \* events handled in one run of SchedSpec or CalendarSpec
MaxDays == 2          \* calendar dates the clock goes through

SavePeriod == 20      \* check_count % 20 == 0
max_errors == 5

\* The calendar: four points a day, 00:00, 00:01, 12:00 and 18:00; date 2 is
\* a Sunday.
SlotsPerDay == 4
DateOf(t) == (t \div SlotsPerDay) + 1
HourOf(t) == << 0, 0, 12, 18 >>[(t % SlotsPerDay) + 1]
MinuteOf(t) == << 0, 1, 0, 0 >>[(t % SlotsPerDay) + 1]
WeekdayOf(t) == (DateOf(t) + 4) % 7

\* mutant: the marker of the daily set is not looked at
DailyDue_NoMarker(t, last_date) ==
  MinuteOf(t) = 0 /\ (HourOf(t) = 12 \/ HourOf(t) = 0)

\* current_minute == 0 and last_daily_leaderboard_date != current_date, and
\* current_hour == 12 or current_hour == 0
DailyDue(t, last_date) ==
  /\ MinuteOf(t) = 0
  /\ last_date # DateOf(t)
  /\ (HourOf(t) = 12 \/ HourOf(t) = 0)

\* current_weekday == 6 and current_hour == 0 and current_minute == 0, and
\* last_weekly_leaderboard_date != current_date
WeeklyDue(t, last_date) ==
  /\ WeekdayOf(t) = 6
  /\ HourOf(t) = 0
  /\ MinuteOf(t) = 0
  /\ last_date # DateOf(t)

\* for skill in top_skills: send_leaderboard(f"skill_{skill}")
RECURSIVE SendSkillBoards(_, _)
SendSkillBoards(st, skills) ==
  IF skills = << >> THEN st
  ELSE SendSkillBoards(send_leaderboard(st, SkillBoardType(Head(skills))),
                       Tail(skills))

\* mutant: the long sleep waits for one failure more
ExtendedBackoff_Above(errors) == errors > max_errors

\* if consecutive_errors >= max_errors
ExtendedBackoff(errors) == errors >= max_errors

\* cycles completed with unsaved changes and no save since
DirtyCycles(unsaved, saved) ==
  IF saved \/ ~unsaved THEN 0 ELSE Min(sinceDirty + 1, SavePeriod)

SchedEvents ==
  { ApiEvent("death", "alice", 11, 10, "", 0, << >>),
    ApiEvent("level_up", "alice", 11, 4, "Aiming", 8, << >>) }

\* the entry of `reports` for a set sent by a cycle at time t
Report(set, t) == [set |-> set, date |-> DateOf(t), hour |-> HourOf(t)]

\* a set of that kind was sent on that date
Emitted(set, date) ==
  \E k \in 1 .. Len(reports) : reports[k].set = set /\ reports[k].date = date

\* an event is handled inside a cycle
SchedHandle ==
  /\ pc = "idle"
  /\ Dispatch(SchedEvents, MaxSchedEvents)
  /\ Forget
  /\ lastSleep' = "none"
  /\ UNCHANGED << writerVars, file_positions, last_events, disk, localVars,
                  curBatch, offered, partial, loopLocals, clock, failRun,
                  sinceDirty, reports >>

\* The try block runs to its end.  monitor_discord_events_log returns without
\* an exception whatever download_log_tail met (read), the leaderboards due
\* are sent, check_count is counted (kept modulo SavePeriod, which is all the
\* code reads of it), the periodic save is made, and the loop sleeps
\* CHECK_INTERVAL.
SchedCycle ==
  /\ pc = "idle"
  /\ \E read \in { "no_new_data", "size_error", "retr_error" } :
       lastCall' = [NoCall EXCEPT !.outcome = read, !.given = Cursor,
                                  !.new_pos = Cursor]
  /\ overlap' = {}
  /\ consecutive_errors' = 0
  /\ failRun' = 0
  /\ LET daily == /\ DailyDue(clock, last_daily_leaderboard_date)
                  /\ DOMAIN player_stats # {}
         weekly == /\ WeeklyDue(clock, last_weekly_leaderboard_date)
                   /\ DOMAIN player_stats # {}
         st1 == IF daily
                THEN send_leaderboard(
                       send_leaderboard(
                         send_leaderboard(HandlerState, "death"), "survival"),
                       "hours")
                ELSE HandlerState
         st2 == IF weekly THEN SendSkillBoards(st1, top_skills) ELSE st1
     IN  /\ sent' = st2.sent
         /\ last_daily_leaderboard_date' =
              IF daily THEN DateOf(clock) ELSE last_daily_leaderboard_date
         /\ last_weekly_leaderboard_date' =
              IF weekly THEN DateOf(clock) ELSE last_weekly_leaderboard_date
         /\ reports' = reports
              \o (IF daily THEN << Report("daily", clock) >> ELSE << >>)
              \o (IF weekly THEN << Report("weekly", clock) >> ELSE << >>)
  /\ check_count' = (check_count + 1) % SavePeriod
  /\ LET saving == check_count' = 0 /\ unsaved_changes
     IN  /\ \E write \in (IF saving
                           THEN { "written", "open_failed", "dump_failed" }
                           ELSE { "none" }) :
              /\ disk' = CASE write = "written" ->
                                Snapshot(player_stats, file_positions)
                           [] write = "dump_failed" -> TornFile
                           [] OTHER -> disk
              /\ unsaved_changes' = IF write = "written" THEN FALSE
                                    ELSE unsaved_changes
         /\ sinceDirty' = DirtyCycles(unsaved_changes, saving)
  /\ lastSleep' = "normal"
  /\ UNCHANGED << writerVars, file_positions, last_events, player_stats,
                  localVars, curBatch, offered, partial, handled, clock >>

\* An exception leaves the try block (the FTP connection cannot be made):
\* the except clause counts it and sleeps, three intervals when the count has
\* reached max_errors.
SchedCycleFail ==
  /\ pc = "idle"
  /\ failRun < MaxFails
  /\ LET errors == consecutive_errors + 1
     IN  IF ExtendedBackoff(errors)
         THEN lastSleep' = "extended" /\ consecutive_errors' = 0
         ELSE lastSleep' = "normal" /\ consecutive_errors' = errors
  /\ failRun' = failRun + 1
  /\ sinceDirty' = DirtyCycles(unsaved_changes, FALSE)
  /\ Forget
  /\ UNCHANGED << writerVars, globalVars, sent, disk, localVars, curBatch,
                  offered, partial, handled, check_count,
                  last_daily_leaderboard_date, last_weekly_leaderboard_date,
                  clock, reports >>

\* time passes between two cycles
Tick ==
  /\ pc = "idle"
  /\ clock < SlotsPerDay * MaxDays - 1
  /\ clock' = clock + 1
  /\ Forget
  /\ lastSleep' = "none"
  /\ UNCHANGED << writerVars, globalVars, sent, disk, localVars, curBatch,
                  offered, partial, handled, loopLocals, failRun, sinceDirty,
                  reports >>

SchedNext ==
  \/ SchedHandle
  \/ SchedCycle
  \/ SchedCycleFail

SchedSpec == Init /\ [][SchedNext]_vars

CalendarNext ==
  \/ SchedHandle
  \/ SchedCycle
  \/ Tick

CalendarSpec == Init /\ [][CalendarNext]_vars

\* ================================================================== claims
Subjects == { EventOf[i].username : i \in { j \in EventIds : EventOf[j].type = "death" } }

TotalDeaths(u) ==
  IF u \in DOMAIN player_stats THEN player_stats[u].total_deaths ELSE 0

DeathNotices(u) ==
  Cardinality({ k \in 1 .. Len(sent) : sent[k].kind = "death" /\ sent[k].username = u })

DeathsWritten(u) ==
  Cardinality({ i \in written : EventOf[i].type = "death" /\ EventOf[i].username = u })

\* a step that completes a call of download_log_tail, and with it a poll cycle
CallDone == lastCall'.outcome # "init"

FailedOutcomes == { "absent", "size_error", "retr_error" }

\* C1: a death line that two consecutive poll cycles of one process run both
\* delivered has been handled once: the subject's total_deaths is 1 (each
\* subject dies once in the log) and at most one death notification was sent.
C1_OverlapHandledOnce ==
  \A i \in overlap :
    EventOf[i].type = "death" =>
      /\ TotalDeaths(EventOf[i].username) = 1
      /\ DeathNotices(EventOf[i].username) <= 1

\* C2: once the log, never rotated, is consumed up to its end, each subject's
\* total_deaths is the number of death events of that subject in the log,
\* whatever saves, crashes and restarts happened on the way.
C2_DeathsMatchLog ==
  (pc = "idle" /\ ~rotated /\ wline = << >> /\ Cursor = Len(remote)) =>
    \A u \in Subjects : TotalDeaths(u) = DeathsWritten(u)

\* C3: a death event whose line was cut by the end of one chunk is applied to
\* the subject's record once a later chunk has delivered the rest of the line.
C3_PartialLineApplied ==
  \A i \in EventIds :
    (partial[i] = "rest" /\ EventOf[i].type = "death") =>
      TotalDeaths(EventOf[i].username) >= 1

\* C4: a call of download_log_tail that finds the size S below the offset it
\* was given reads from byte 0 (no RETR at all when S = 0), never from the
\* stored offset, and when it returns content the new offset is S.
C4_RotationReadsFromZero ==
  (lastCall.size >= 0 /\ lastCall.size < lastCall.given) =>
    /\ lastCall.rest \in { -1, 0 }
    /\ lastCall.rest = -1 => lastCall.size = 0
    /\ ~lastCall.none => lastCall.new_pos = lastCall.size

C4_Witness ==
  /\ lastCall.outcome = "ok"
  /\ lastCall.size > 0
  /\ lastCall.size < lastCall.given
  /\ lastCall.rest = 0
  /\ lastCall.new_pos = lastCall.size

\* C5: a call that finds the size equal to the offset it was given returns
\* empty content and that offset without issuing a RETR, and the poll cycle
\* leaves the stored cursor, the dedup window and the player records unchanged.
C5_NoOpRead ==
  [][ (CallDone /\ lastCall'.size = lastCall'.given) =>
        /\ lastCall'.rest = -1
        /\ ~lastCall'.none
        /\ lastCall'.clen = 0
        /\ lastCall'.new_pos = lastCall'.given
        /\ UNCHANGED << file_positions, last_events, player_stats >> ]_vars

C5_Witness ==
  /\ lastCall.outcome = "no_new_data"
  /\ lastCall.given > 0
  /\ lastCall.size = lastCall.given
  /\ Cursor = lastCall.given

\* C6: a poll cycle lowers the stored cursor only when the size it observed is
\* strictly below the stored offset; every other cycle leaves it or raises it.
C6_CursorMonotone ==
  [][ CallDone =>
        \/ Cursor' >= Cursor
        \/ lastCall'.size >= 0 /\ lastCall'.size < Cursor ]_vars

C6_Witness ==
  /\ lastCall.outcome = "ok"
  /\ lastCall.size < lastCall.given
  /\ Cursor = lastCall.size
  /\ Cursor > 0

\* C7 as stated: a call that fails or finds the file absent returns no content
\* with the offset it was given, and the stored cursor is unchanged.
C7_FailureReturnsGivenOffset ==
  [][ (CallDone /\ lastCall'.outcome \in FailedOutcomes) =>
        /\ lastCall'.none
        /\ lastCall'.new_pos = lastCall'.given
        /\ file_positions' = file_positions ]_vars

\* C7 amended: a call that fails or finds the file absent returns no content,
\* with the offset it was given, or with 0 when the RETR fails after the size
\* was found below that offset; the stored cursor is unchanged in every case.
C7_FailureKeepsCursor ==
  [][ (CallDone /\ lastCall'.outcome \in FailedOutcomes) =>
        /\ lastCall'.none
        /\ lastCall'.new_pos =
             IF lastCall'.outcome = "retr_error" /\ lastCall'.size < lastCall'.given
             THEN 0 ELSE lastCall'.given
        /\ file_positions' = file_positions ]_vars

C7_Witness ==
  /\ lastCall.outcome = "retr_error"
  /\ lastCall.size < lastCall.given
  /\ lastCall.new_pos = 0
  /\ Cursor = lastCall.given

\* C8: a call that returns content returns the bytes from the RETR offset up to
\* the size it queried and no more: their number is new offset - RETR offset.
C8_ContentEndsAtSize ==
  lastCall.outcome = "ok" => lastCall.nbytes = lastCall.new_pos - lastCall.rest

\* C9: the dedup window holds every identity offered to it in this process
\* run, up to 1000: min(number of distinct identities offered, 1000) of them.
C9_WindowSize ==
  Cardinality(last_events) = Min(Cardinality(offered), DedupCap)

\* C10: while no more than 1000 distinct identities were offered in this
\* process run, each of them is in the window and is recognised as seen.
C10_RecentRecognised ==
  Cardinality(offered) <= DedupCap => offered \subseteq last_events

\* ------------------------------------------ claims on the handlers (HandlerSpec)
Last(q) == q[Len(q)]

\* the record of a subject, or that of a subject never seen
Stat(u) == MapGet(player_stats, u, NewPlayer(0))

\* the step is a call just recorded in `handled`
Called(op) == Len(handled') = Len(handled) + 1 /\ Last(handled').op = op

\* positions in `handled` of the events of a type for a subject whose handler
\* returned without an exception
Accepted(type, u) ==
  { k \in 1 .. Len(handled) :
      /\ handled[k].op = "event"
      /\ handled[k].event.type = type
      /\ handled[k].event.username = u
      /\ ~handled[k].raised }

RECURSIVE SumHours(_)
SumHours(ks) ==
  IF ks = {} THEN 0
  ELSE LET k == CHOOSE x \in ks : TRUE
       IN  handled[k].event.hours_survived + SumHours(ks \ { k })

MaxOf(ns) == IF ns = {} THEN 0 ELSE CHOOSE n \in ns : \A m \in ns : m <= n

\* C11: init_player on a subject already in player_stats leaves that record
\* and every other record as they were.
C11_InitPlayerIdempotent ==
  [][ (Called("init_player") /\ Last(handled').event.username \in DOMAIN player_stats)
        => player_stats' = player_stats ]_vars

\* init_player was called for alice, who had died before, while bob is known too
C11_Witness ==
  /\ Len(handled) >= 3
  /\ Last(handled).op = "init_player"
  /\ Last(handled).event.username = "alice"
  /\ Accepted("death", "alice") # {}
  /\ Stat("alice").total_deaths >= 1
  /\ "bob" \in DOMAIN player_stats

\* C12: total_deaths of a subject is the number of death events accepted for
\* that subject.
C12_DeathsCounted ==
  \A u \in Players : Stat(u).total_deaths = Cardinality(Accepted("death", u))

\* C13: longest_survival of a subject is the largest hours_survived among the
\* death events handled for that subject, whatever their order.
C13_LongestSurvival ==
  \A u \in Players :
    Stat(u).lifetime_stats.longest_survival =
      MaxOf({ handled[k].event.hours_survived : k \in Accepted("death", u) })

\* the death after 25 hours was handled before the one after 10 hours
C13_Witness ==
  \E j, k \in Accepted("death", "alice") :
    /\ j < k
    /\ handled[j].event.hours_survived = 25
    /\ handled[k].event.hours_survived = 10
    /\ Stat("alice").lifetime_stats.longest_survival = 25

\* C14: total_hours_survived of a subject is the sum of hours_survived of the
\* death events handled for that subject; no other event changes it.
C14_TotalHours ==
  \A u \in Players :
    Stat(u).lifetime_stats.total_hours_survived = SumHours(Accepted("death", u))

\* two deaths of alice, then an event of alice that is no death
C14_Witness ==
  /\ Stat("alice").lifetime_stats.total_hours_survived = 35
  /\ Last(handled).op = "event"
  /\ Last(handled).event.username = "alice"
  /\ Last(handled).event.type \in { "level_up", "login", "character_created" }

CharAlive(ps, u) == u \in DOMAIN ps /\ ps[u].current_character.alive
CharDead(ps, u) ==
  u \in DOMAIN ps /\ ~ps[u].current_character.alive /\ ps[u].total_deaths > 0

FreshCharacter(ps, u) ==
  /\ ps[u].current_character.skills = EmptyMap
  /\ ps[u].current_character.hours_survived = 0

\* C16 as stated: a character becomes Dead only from Alive, and a Dead
\* character becomes Alive only by a character_created event that installs a
\* fresh character.
C16_OnlyRespawnRevives ==
  [][ \A u \in Players :
        /\ (~CharDead(player_stats, u) /\ CharDead(player_stats', u))
             => CharAlive(player_stats, u)
        /\ (CharDead(player_stats, u) /\ CharAlive(player_stats', u))
             => /\ Called("event")
                /\ Last(handled').event.type = "character_created"
                /\ FreshCharacter(player_stats', u) ]_vars

\* C16: a character stops being alive only by a death event of its subject,
\* a subject becomes Dead only by a death event (from Alive, or with no living
\* character yet), and a character that is not alive becomes Alive only by a
\* character_created event (fresh character) or by a login event (skills and
\* hours taken from the event).
C16_Lifecycle ==
  [][ \A u \in Players :
        LET e == Last(handled').event
            of_u(type) == Called("event") /\ e.type = type /\ e.username = u
        IN  /\ (CharAlive(player_stats, u) /\ ~CharAlive(player_stats', u))
                 => of_u("death") /\ CharDead(player_stats', u)
            /\ (~CharDead(player_stats, u) /\ CharDead(player_stats', u))
                 => of_u("death")
            /\ (~CharAlive(player_stats, u) /\ CharAlive(player_stats', u))
                 => \/ of_u("character_created") /\ FreshCharacter(player_stats', u)
                    \/ /\ of_u("login")
                       /\ player_stats'[u].current_character.skills =
                            parse_skills_string(e.skills)
                       /\ player_stats'[u].current_character.hours_survived =
                            e.hours_survived ]_vars

\* alice died and then logged in: her character is alive with the skills of
\* the login event
C16_Witness ==
  /\ Len(handled) >= 2
  /\ handled[Len(handled) - 1].op = "event"
  /\ handled[Len(handled) - 1].event.type = "death"
  /\ handled[Len(handled) - 1].event.username = "alice"
  /\ Last(handled).op = "event"
  /\ Last(handled).event.type = "login"
  /\ Last(handled).event.username = "alice"
  /\ CharAlive(player_stats, "alice")
  /\ Stat("alice").total_deaths >= 1
  /\ Stat("alice").current_character.skills # EmptyMap

\* C17: a skill leaderboard lists each subject at most once, a subject whose
\* character is not alive with the lifetime milestone, and a subject whose
\* character is alive with the level of the current character.
C17_SkillBoard ==
  [][ ( /\ Called("leaderboard")
        /\ Last(handled').board = "skill_Aiming"
        /\ Len(sent') = Len(sent) + 1 )
      => LET lines == Last(sent').lines
         IN  \A u \in Players :
               LET mine == { k \in 1 .. Len(lines) : lines[k].name = u }
               IN  /\ Cardinality(mine) <= 1
                   /\ \A k \in mine :
                        lines[k].level =
                          IF CharAlive(player_stats, u)
                          THEN MapGet(player_stats[u].current_character.skills,
                                      "Aiming", 0)
                          ELSE MapGet(player_stats[u].lifetime_stats.skill_milestones,
                                      "Aiming", 0) ]_vars

\* the board was posted while alice was dead with a current level of 3 and a
\* milestone of 8, and it lists her with 8
C17_Witness ==
  /\ handled # << >>
  /\ Last(handled).op = "leaderboard"
  /\ Last(handled).board = "skill_Aiming"
  /\ sent # << >>
  /\ Last(sent).kind = "skill_leaderboard"
  /\ ~CharAlive(player_stats, "alice")
  /\ MapGet(Stat("alice").current_character.skills, "Aiming", 0) = 3
  /\ MapGet(Stat("alice").lifetime_stats.skill_milestones, "Aiming", 0) = 8
  /\ \E k \in 1 .. Len(Last(sent).lines) :
       Last(sent).lines[k] = [name |-> "alice", level |-> 8]

\* ------------------------------------------- claims on the poll cycle (Spec)
\* a line of the chunk that is not blank and is no JSON document
HasMalformed(content) ==
  \E k \in 1 .. Len(SplitLines(content)) :
    LET line == SplitLines(content)[k]
    IN  line # << >> /\ ~Parseable(line)

\* the notification the handler of event i posts
NoticeOf(i) ==
  [kind |-> EventOf[i].type,
   username |-> IF EventOf[i].type = "death" THEN EventOf[i].username ELSE ""]

\* C18: when the chunk of a cycle holds a malformed line, every well-formed
\* line of that chunk whose event is new is handled in that cycle, and the
\* cursor moves to the end of the chunk.
C18_MalformedLineSkipped ==
  [][ LET content == Decode(Retrieved(remote, from_position))
          batch == Batch(content)
      IN  ( /\ pc = "retr"
            /\ lastCall'.outcome = "ok"
            /\ HasMalformed(content) )
          => /\ Cursor' = lastCall'.new_pos
             /\ \A i \in batch :
                  ( /\ EventIdentity(EventOf[i]) \notin last_events
                    /\ \A j \in batch \ { i } :
                         EventIdentity(EventOf[j]) # EventIdentity(EventOf[i]) )
                  => \E k \in Len(sent) + 1 .. Len(sent') : sent'[k] = NoticeOf(i)
    ]_vars

\* ------------------------------------------------ claims on the loop (LoopSpec)
\* C19: when the process is killed, also in the middle of save_player_stats,
\* the snapshot file holds a complete document (the one before or the new one).
C19_SnapshotAtomic == pc = "stopped" => disk.whole

\* C20: a KeyboardInterrupt that ends the loop, in the try block or in the
\* sleep after a failed cycle, leaves no mutation unsaved.
C20_ShutdownFlushes ==
  [][ (pc \in { "idle", "backoff" } /\ pc' = "exited") => ~unsaved_changes' ]_vars

\* ------------------------------------ more claims on the poll cycle (Spec)
\* the handler of event i has run to its end: its notification was posted
Handled(i) ==
  \E j \in EventIds :
    /\ EventIdentity(EventOf[j]) = EventIdentity(EventOf[i])
    /\ NoticeOf(j) \in Range(sent)

\* the only exception a handler raises on a decoded event
HandlerRaises(i) == ~SkillsValid(EventOf[i].skills)

\* the whole line of event i lies in the first pos bytes of the remote log
LineBelow(i, pos) ==
  \E k \in 1 .. Len(remote) :
    /\ k + 2 <= pos
    /\ k + 2 <= Len(remote)
    /\ SubSeq(remote, k, k + 2) = EventLine(i)

\* C26: an event of the last chunk whose identity reached the membership test
\* was either handled to the end and is in the dedup window, or its handler
\* raised and it is not in the window.
C26_InsertAfterAcceptance ==
  \A i \in curBatch :
    EventIdentity(EventOf[i]) \in offered =>
      \/ EventIdentity(EventOf[i]) \in last_events /\ Handled(i)
      \/ EventIdentity(EventOf[i]) \notin last_events /\ HandlerRaises(i)

\* C27: when a cycle has stored a new cursor, the events of the chunk it
\* fetched have been handled: the cursor covers no event that was not handled.
C27_CursorAfterHandling ==
  (lastCall.outcome = "ok" /\ HasContent(lastCall)) =>
    \A i \in curBatch : Handled(i) \/ HandlerRaises(i)

\* C29: a restart fetches again, of the events this run had delivered, at most
\* those of the chunk of its last poll cycle.
C29_RestartRedeliversOneBatch ==
  [][ (pc \in { "stopped", "exited" } /\ pc' = "idle" /\ ~rotated) =>
        \A i \in EventIds :
          ( /\ EventIdentity(EventOf[i]) \in offered
            /\ LineBelow(i, Cursor)
            /\ ~LineBelow(i, Cursor') )
          => \E j \in curBatch :
               EventIdentity(EventOf[j]) = EventIdentity(EventOf[i]) ]_vars

\* C30: a cycle whose transport succeeded, on a log that was not modified
\* while it ran, ends with the cursor at the size of the log (so that cycles
\* repeated on an unmodified log bring the cursor to the size).
C30_SuccessfulCycleReachesSize ==
  [][ ( /\ CallDone
        /\ lastCall'.outcome \in { "ok", "no_new_data" }
        /\ lastCall'.size = Len(remote) )
      => Cursor' = Len(remote) ]_vars

\* ------------------------------------ more claims on the handlers (HandlerSpec)
\* C28: a call of handle_discord_event that ends with an exception leaves
\* player_stats and unsaved_changes as they were.
C28_NoPartialEffect ==
  [][ (Called("event") /\ Last(handled').raised) =>
        /\ player_stats' = player_stats
        /\ unsaved_changes' = unsaved_changes ]_vars

\* ------------------------------------------- more claims on the loop (LoopSpec)
\* C22: a write that fails inside save_player_stats ends the call without
\* ending the loop, with unsaved_changes still set and player_stats and
\* file_positions as they were; unsaved_changes is cleared by a running
\* process only when the whole snapshot of the current state is on disk.
C22_FailedWriteKeepsFlag ==
  [][ /\ ( /\ pc \in { "saving", "saving_exit" }
           /\ pc' \in { "idle", "exited" }
           /\ ~disk'.whole )
         => /\ unsaved_changes'
            /\ player_stats' = player_stats
            /\ file_positions' = file_positions
            /\ (pc = "saving" => pc' = "idle")
      /\ ( /\ pc \notin { "stopped", "exited" }
           /\ unsaved_changes
           /\ ~unsaved_changes' )
         => disk' = Snapshot(player_stats, file_positions) ]_vars

\* a periodic save failed and the loop goes on with the changes still unsaved
C22_Witness ==
  /\ pc = "idle"
  /\ ~disk.whole
  /\ unsaved_changes
  /\ player_stats # EmptyMap

\* ----------------------------------------- claims on the cycles (SchedSpec)
\* C21: unsaved changes never stay for 20 completed cycles without a call of
\* save_player_stats, and a cycle that starts without unsaved changes writes
\* no snapshot.
C21_SaveWithinPeriod ==
  [][ /\ sinceDirty' < SavePeriod
      /\ ~unsaved_changes => disk' = disk ]_vars

\* C23 as stated: the extended sleep is taken only when more than max_errors
\* cycles in a row have failed.
C23_ExtendedAboveThreshold ==
  [][ lastSleep' = "extended" => failRun' > max_errors ]_vars

\* C23: a failed cycle is followed by the extended sleep exactly when it is the
\* 5th, 10th, ... failure in a row, and by the normal sleep otherwise;
\* consecutive_errors counts the failures in a row since the last success or
\* the last extended sleep, and is 0 after any successful cycle.
C23_Backoff ==
  [][ /\ failRun' = failRun + 1
         => (lastSleep' = "extended" <=> failRun' % max_errors = 0)
      /\ lastSleep' = "extended" => failRun' = failRun + 1
      /\ (lastSleep' = "normal" /\ failRun' = 0) => consecutive_errors' = 0
      /\ consecutive_errors' = failRun' % max_errors ]_vars

\* ten cycles in a row failed: the tenth is followed by the second extended sleep
C23_Witness ==
  /\ failRun = 2 * max_errors
  /\ lastSleep = "extended"
  /\ consecutive_errors = 0

\* C24: a cycle in which download_log_tail failed to read counts as a failed
\* cycle, consecutive_errors goes up by one, and the cursor stays.
C24_ReadFailureCounted ==
  [][ (lastSleep' # "none" /\ lastCall'.outcome \in FailedOutcomes)
        => /\ consecutive_errors' = consecutive_errors + 1
           /\ Cursor' = Cursor ]_vars

C32_SameTimestampBothCounted ==
  \A i, j \in EventIds :
    ( /\ EventOf[i].type = "death"
      /\ EventOf[j].type = "death"
      /\ EventOf[i].username # EventOf[j].username
      /\ EventOf[i].timestamp = EventOf[j].timestamp
      /\ pc = "idle"
      /\ ~rotated
      /\ EventIdentity(EventOf[i]) \in offered
      /\ LineBelow(i, Cursor)
      /\ LineBelow(j, Cursor) )
    => /\ TotalDeaths(EventOf[i].username) = 1
       /\ TotalDeaths(EventOf[j].username) = 1

\* C33: whenever player_stats or file_positions differ from what the snapshot
\* file gives back, unsaved_changes is true.
C33_DirtyStateIsMarked ==
  ( \/ player_stats # LoadedPlayerStats(disk)
    \/ file_positions # LoadedFilePositions(disk) )
  => unsaved_changes

\* C35: a poll cycle that observed a size below the stored cursor ends with the
\* stored cursor at that size.
C35_RotationLowersCursor ==
  [][ (CallDone /\ lastCall'.size >= 0 /\ lastCall'.size < lastCall'.given)
        => Cursor' = lastCall'.size ]_vars

\* ------------------------------------ last claims on the handlers (HandlerSpec)
\* C34: for every player and every skill of the current character, the
\* lifetime milestone of the skill is at least the current level.
C34_MilestoneCoversSkill ==
  \A u \in DOMAIN player_stats :
    \A s \in DOMAIN player_stats[u].current_character.skills :
      MapGet(player_stats[u].lifetime_stats.skill_milestones, s, 0)
        >= player_stats[u].current_character.skills[s]

\* ------------------------------------ last claims on the calendar (CalendarSpec)
\* C31: once a successful cycle has run during minute 00:00 or minute 12:00
\* with at least one tracked player, the daily leaderboard set has been sent at
\* that trigger time of that date; so it is sent both at midnight and at noon
\* of a date on which cycles ran at both.
C31_DailyAtNoonAndMidnight ==
  ( /\ MinuteOf(clock) = 0
    /\ HourOf(clock) \in { 0, 12 }
    /\ lastSleep = "normal"
    /\ player_stats # EmptyMap )
  => Report("daily", clock) \in Range(reports)

====
